---- MODULE Spec2Model ----
(***************************************************************************)
(* Model of the kinematic rig animation (proj2): the Joint tree and its   *)
(* transforms (rig.py), the auto-vivifying named registry Rig.Joints      *)
(* (rig.py), the frame driver Animation (animation.py) and the per-frame  *)
(* motion model Proj2Ani.update (__main__.py).                            *)
(*                                                                         *)
(* Numbers.  QMatrix4x4 holds floats; the model keeps every matrix entry  *)
(* an integer by using integer translations, quarter-turn rotations and   *)
(* even joint lengths (the shape transform halves the length).  Joints    *)
(* are named by their creation index 1, 2, ...                            *)
(***************************************************************************)
EXTENDS Integers, Sequences, FiniteSets, TLC

\* ------------------------------------------------------------------ bounds
\* most joints in a scene that is then animated
MaxJoints == 2
\* most joints in a scene that is only built and traversed
MaxBuild == 3
\* most translate/rotate calls issued on local transforms during a run
MaxMut == 1
\* most registry operations the application issues
MaxRegOps == 2
\* number of spinal joints and of joints of a wing (the program's scene has 10 and 5)
spine_len == 3
wing_len == 2

\* ------------------------------------------------------------------ values
\* Python's None (a joint constructed without parent)
None == 0
\* (length, thickness) pairs the constructor is called with
Shapes == {<<2, 1>>, <<4, 1>>}
\* pairs with a non-positive length or thickness, which a caller may also pass
BadShapes == {<<0, 1>>, <<2, -1>>}


\* ------------------------------------------------------------------ QMatrix4x4
Identity ==
    << <<1, 0, 0, 0>>, <<0, 1, 0, 0>>, <<0, 0, 1, 0>>, <<0, 0, 0, 1>> >>

\* operator* of two matrices: entry (i, j) is row i of a times column j of b
Dot(a, b, i, j) ==
    a[i][1] * b[1][j] + a[i][2] * b[2][j] + a[i][3] * b[3][j] + a[i][4] * b[4][j]
MulRow(a, b, i) == <<Dot(a, b, i, 1), Dot(a, b, i, 2), Dot(a, b, i, 3), Dot(a, b, i, 4)>>
Mul(a, b) == <<MulRow(a, b, 1), MulRow(a, b, 2), MulRow(a, b, 3), MulRow(a, b, 4)>>

\* m.translate(x, y, z): multiplies m by a translation, on the right
Translate(m, x, y, z) ==
    Mul(m, << <<1, 0, 0, x>>, <<0, 1, 0, y>>, <<0, 0, 1, z>>, <<0, 0, 0, 1>> >>)

\* m.translate(0, 0, 0.5): half a unit along the local Z axis; the division is
\* exact because the Z column was scaled by an even length
HalfZRow(m, i) == <<m[i][1], m[i][2], m[i][3], m[i][4] + (m[i][3] \div 2)>>
TranslateHalfZ(m) == <<HalfZRow(m, 1), HalfZRow(m, 2), HalfZRow(m, 3), HalfZRow(m, 4)>>

\* m.scale(x, y, z): multiplies m by a scale, on the right
Scale(m, x, y, z) ==
    Mul(m, << <<x, 0, 0, 0>>, <<0, y, 0, 0>>, <<0, 0, z, 0>>, <<0, 0, 0, 1>> >>)

\* m.rotate(90, x, y, z) for a unit axis: multiplies m, on the right, by the
\* axis-angle rotation matrix with cos = 0 and sin = 1
Rotate90(m, x, y, z) ==
    Mul(m, << <<x * x,     x * y - z, x * z + y, 0>>,
              <<x * y + z, y * y,     y * z - x, 0>>,
              <<x * z - y, y * z + x, z * z,     0>>,
              <<0,         0,         0,         1>> >>)

\* ------------------------------------------------------------------ state
VARIABLES
    created,          \* number of Joint objects constructed so far
    parent,           \* Joint.parent
    children,         \* Joint.children (a Python set)
    length,           \* Joint.length
    thickness,        \* Joint.thickness
    shape_transform,  \* Joint._shape_transform
    joint_pos,        \* Joint.joint_pos
    local_transform,  \* Joint.local_transform
    global_transform, \* Joint._global_transform
    aliased,          \* joints whose _global_transform is the very object local_transform
    obj_transform,    \* matrix of the joint's cone in the scene (Joint._obj_transform)
    pushLog,          \* joints in the order the last Rig.update() called setMatrix
    reg,              \* Rig.joints: the registry, a map from key paths to values
    regOps,           \* number of registry operations issued by the application
    ctor_root,        \* the joint Rig.__init__ was given (None: no Rig yet)
    scene_ready,      \* Animation.setup_scene has returned
    mutations,        \* number of translate/rotate calls made so far
    lastOp,           \* the operation that produced this state
    prevOp,           \* the operation before it
    lastArg,          \* its argument
    lastResult,       \* its result: a value, or the exception it raised
    yielded,          \* what the last iter_hierarchy() traversal yielded
    prevYielded       \* what the traversal before it yielded

rigVars == <<created, parent, children, length, thickness, shape_transform, joint_pos,
             local_transform, global_transform, aliased, obj_transform, pushLog,
             reg, regOps, ctor_root, scene_ready, mutations, lastOp, prevOp, lastArg,
             lastResult, yielded, prevYielded>>

\* the frame driver (Animation)
VARIABLES
    ani_state,        \* "none", "failed" (__init__ raised), "constructed", "running", "stopped"
    ani_args,         \* the frame_rate and run_time __init__ was called with
    frame_rate,       \* Animation.frame_rate
    run_time,         \* Animation.run_time
    frame,            \* Animation.frame
    prev_update_time, \* Animation.prev_update_time
    view,             \* "none", "created", "shown" or "closed": the Qt3DWindow
    animation_timer,  \* "none", "active" or "stopped": the QTimer
    calls,            \* number of calls of the frame update so far
    lastCall          \* the arguments (frame, t, dt) of the last one

aniVars == <<ani_state, ani_args, frame_rate, run_time, frame, prev_update_time, view,
             animation_timer, calls, lastCall>>

\* the motion model (Proj2Ani.update), one frame at a time
VARIABLES
    m_pc,              \* where the frame update stands: "idle", "spine", "wings", "done"
    m_wing,            \* the wing the outer loop is at
    m_i,               \* the index the inner loop is at
    prev_global_angle, \* the running accumulator of the chain
    global_angles,     \* global_angle computed for each joint of each chain, this frame
    wave,              \* degrees of the wave rotation applied to each joint of each chain
    bent               \* joints (chain, index) given their constant bend rotations

motionVars == <<m_pc, m_wing, m_i, prev_global_angle, global_angles, wave, bent>>

Joints == 1..created


\* ------------------------------------------------------------------ helpers
\* all enumerations of the set S as a sequence
PermSeqs(S) ==
    {s \in [1..Cardinality(S) -> S] : \A a, b \in DOMAIN s : a # b => s[a] # s[b]}

\* the children of joint j in the order `order` iterates them: order[j] is one
\* iteration order of the Python set j.children
ChildOrder(j, order) == order[j]

RangeOf(s) == {s[i] : i \in DOMAIN s}

\* the result of an operation: the value returned, or the exception raised
Returned(v) == [exc |-> "none", val |-> v]
Raised(e) == [exc |-> e, val |-> None]
Args(path, n) == [path |-> path, n |-> n]

\* ------------------------------------------------------------------ Rig.Joints
\* a registry value that is a nested Rig.Joints instance (every other value is a joint)
JointsObj == -1

\* what reading the attribute add of a Joints instance gives: its bound method
MethodObj == -2

\* keys the application uses: attribute names at the top level, indices below;
\* an index i is written as the string of its digits
Names == {"root", "wings", "add"}
\* names that are attributes of the class Rig.Joints itself: Python finds them
\* by normal lookup and never calls __getattr__ for them
ClassAttrs == {"add"}
Indices == {"1", "3"}
\* the paths it uses: <name>, <name>[i] and, as in wings[1][3], <name>[1][3]
RegPaths ==
    {<<n>> : n \in Names}
      \cup {<<n, i>> : n \in Names, i \in Indices}
      \cup {<<n, "1", "3">> : n \in Names}

EmptyReg == [q \in {} |-> None]

IsPrefix(p, q) == Len(p) <= Len(q) /\ SubSeq(q, 1, Len(p)) = p

\* self._joints[key] = value in the container at the path's prefix; whatever the
\* key held before (a whole nested container, possibly) is no longer referenced
Store(r, p, v) ==
    [q \in {x \in DOMAIN r : ~IsPrefix(p, x)} \cup {p} |-> IF q = p THEN v ELSE r[q]]

\* del self._joints[key]
Remove(r, p) == [q \in {x \in DOMAIN r : ~IsPrefix(p, x)} |-> r[q]]

\* a plain dict in place of the defaultdict: a missing key raises KeyError
LookupPlainDict(r, path, k) ==
    IF SubSeq(path, 1, 1) \in DOMAIN r
    THEN [reg |-> r, res |-> Returned(r[SubSeq(path, 1, 1)])]
    ELSE [reg |-> r, res |-> Raised("KeyError")]

\* defaultdict(Rig.Joints).__getitem__ along a path, from its k-th key on: a
\* missing key is initialised to a new Joints instance and stored; indexing into
\* a Joint raises TypeError
RECURSIVE Lookup(_, _, _)
Lookup(r, path, k) ==
    LET p == SubSeq(path, 1, k)
        r1 == IF p \in DOMAIN r THEN r ELSE Store(r, p, JointsObj)
    IN  IF k = Len(path)
        THEN [reg |-> r1, res |-> Returned(r1[p])]
        ELSE IF r1[p] = JointsObj
             THEN Lookup(r1, path, k + 1)
             ELSE [reg |-> r1, res |-> Raised("TypeError")]

\* rig.joints.<name>[i][k]: the first key is read as an attribute (__getattr__,
\* called only when normal lookup finds nothing), the others as items (__getitem__)
GetItem(r, path) ==
    IF path[1] \in ClassAttrs
    THEN [reg |-> r,
          res |-> IF Len(path) = 1 THEN Returned(MethodObj) ELSE Raised("TypeError")]
    ELSE Lookup(r, path, 1)

\* rig.joints.<name>[i][k] = v (__setattr__ / __setitem__): the containers on the
\* way are read (and so created when missing), then the last key is stored
SetItem(r, path, v) ==
    IF Len(path) = 1
    THEN [reg |-> Store(r, path, v), res |-> Returned(None)]
    ELSE LET w == GetItem(r, SubSeq(path, 1, Len(path) - 1))
         IN  IF w.res.exc # "none" THEN w
             ELSE IF w.res.val # JointsObj THEN [reg |-> w.reg, res |-> Raised("TypeError")]
             ELSE [reg |-> Store(w.reg, path, v), res |-> Returned(None)]

\* del rig.joints.<name>[i][k] (__delattr__ / __delitem__): del on the dict
\* raises KeyError for a missing key
DelItem(r, path) ==
    LET w == IF Len(path) = 1
             THEN [reg |-> r, res |-> Returned(JointsObj)]
             ELSE GetItem(r, SubSeq(path, 1, Len(path) - 1))
    IN  IF w.res.exc # "none" THEN w
        ELSE IF w.res.val # JointsObj THEN [reg |-> w.reg, res |-> Raised("TypeError")]
        ELSE IF path \notin DOMAIN w.reg THEN [reg |-> w.reg, res |-> Raised("KeyError")]
        ELSE [reg |-> Remove(w.reg, path), res |-> Returned(None)]


\* ------------------------------------------------------------------ Joint
\* Joint.__init__: the shape transform (scale to thickness and length, move
\* forward by half, point the cone forward)
ShapeTransform(len, th) ==
    Rotate90(TranslateHalfZ(Scale(Identity, th, th, len)), 1, 0, 0)

\* Joint.__init__: the transform that puts children at the endpoint of the joint
JointPos(len) == Translate(Identity, 0, 0, len)

\* a constructor that forgets to register the joint with its parent
AddChildForgotten(ch, p, j) == ch

\* parent.children.add(self): adding to a Python set
AddChild(ch, p, j) == [ch EXCEPT ![p] = @ \cup {j}]

\* Joint(ani, length, thickness, parent): the constructor checks nothing.
\* Joints are constructed while make_scene builds the scene
NewJoint(len, th, p) ==
    /\ ~scene_ready
    /\ p \in {None} \cup Joints
    /\ LET j == created + 1
       IN  /\ created' = j
           /\ parent' = Append(parent, p)
           /\ children' = Append(IF p # None THEN AddChild(children, p, j) ELSE children, {})
           /\ length' = Append(length, len)
           /\ thickness' = Append(thickness, th)
           /\ obj_transform' = Append(obj_transform, Identity)
           /\ shape_transform' = Append(shape_transform, ShapeTransform(len, th))
           /\ joint_pos' = Append(joint_pos, JointPos(len))
           /\ local_transform' = Append(local_transform, Identity)
           /\ global_transform' = Append(global_transform, Identity)
           /\ lastOp' = "NewJoint"
           /\ prevOp' = lastOp
           /\ lastArg' = Args(<<>>, <<j, len, th, p>>)
           /\ lastResult' = Returned(j)
    /\ UNCHANGED <<aliased, pushLog, reg, regOps, ctor_root, scene_ready, mutations,
                   yielded, prevYielded>>

\* a reset that leaves the local transform as it is
JointResetKeeps(loc, j) == loc

\* Joint.reset on joint j of the field local_transform
JointReset(loc, j) == [loc EXCEPT ![j] = Identity]

\* the translate/rotate calls the motion model issues on a local transform
Mutators == {"translate", "rotate"}
ApplyMutator(m, kind) ==
    IF kind = "translate" THEN Translate(m, 1, 0, 0) ELSE Rotate90(m, 0, -1, 0)

\* joint.local_transform.translate(..) / .rotate(..): changes the matrix object in
\* place, so a _global_transform that is the same object changes with it
Mutate(j, kind) ==
    /\ scene_ready
    /\ j \in Joints
    /\ LET m == ApplyMutator(local_transform[j], kind)
       IN  /\ local_transform' = [local_transform EXCEPT ![j] = m]
           /\ global_transform' =
                  IF j \in aliased THEN [global_transform EXCEPT ![j] = m]
                  ELSE global_transform
    /\ mutations' = mutations + 1
    /\ lastOp' = "Mutate"
    /\ prevOp' = lastOp
    /\ lastArg' = Args(<<kind>>, <<j>>)
    /\ lastResult' = Returned(None)
    /\ UNCHANGED <<created, parent, children, length, thickness, shape_transform, joint_pos,
                   aliased, obj_transform, pushLog, reg, regOps, ctor_root, scene_ready,
                   yielded, prevYielded>>

\* a traversal that yields the children but not their hierarchies
IterHierarchyShallow(j, order) == <<j>> \o order[j]

\* Joint.iter_hierarchy: this joint, then each child's entire hierarchy;
\* `order` fixes the order in which each children set is iterated
RECURSIVE IterHierarchy(_, _)
RECURSIVE IterChildren(_, _)
IterChildren(cs, order) ==
    IF cs = <<>> THEN <<>>
    ELSE IterHierarchy(Head(cs), order) \o IterChildren(Tail(cs), order)
IterHierarchy(j, order) ==
    <<j>> \o IterChildren(ChildOrder(j, order), order)

\* a composition that moves to the joint's own end instead of its parent's
ComposeGlobalOwnEnd(g, j) ==
    IF parent[j] = None
    THEN local_transform[j]
    ELSE Mul(Mul(g[parent[j]], joint_pos[j]), local_transform[j])

\* the new _global_transform of joint j, given the global transforms g so far
ComposeGlobal(g, j) ==
    IF parent[j] = None
    THEN local_transform[j]
    ELSE Mul(Mul(g[parent[j]], joint_pos[parent[j]]), local_transform[j])

\* an update that pushes to the scene object only after the children are done
RECURSIVE UpdateTransformPushLast(_, _, _)
RECURSIVE UpdateChildrenPushLast(_, _, _)
UpdateChildrenPushLast(cs, st, order) ==
    IF cs = <<>> THEN st
    ELSE UpdateChildrenPushLast(Tail(cs), UpdateTransformPushLast(Head(cs), st, order), order)
UpdateTransformPushLast(j, st, order) ==
    LET g == ComposeGlobal(st.global, j)
        st1 == [st EXCEPT !.global = [st.global EXCEPT ![j] = g],
                          !.aliased = IF parent[j] = None THEN st.aliased \cup {j}
                                      ELSE st.aliased \ {j}]
        st2 == UpdateChildrenPushLast(ChildOrder(j, order), st1, order)
    IN  [st2 EXCEPT !.obj = [st2.obj EXCEPT ![j] = Mul(g, shape_transform[j])],
                    !.log = Append(st2.log, j)]

\* Joint.update_transform: the global transform, the push to the scene object,
\* then the children; st holds the fields the recursion writes
RECURSIVE UpdateTransform(_, _, _)
RECURSIVE UpdateChildren(_, _, _)
UpdateChildren(cs, st, order) ==
    IF cs = <<>> THEN st
    ELSE UpdateChildren(Tail(cs), UpdateTransform(Head(cs), st, order), order)
UpdateTransform(j, st, order) ==
    LET g == ComposeGlobal(st.global, j)
        st1 == [global  |-> [st.global EXCEPT ![j] = g],
                aliased |-> IF parent[j] = None THEN st.aliased \cup {j}
                            ELSE st.aliased \ {j},
                obj     |-> [st.obj EXCEPT ![j] = Mul(g, shape_transform[j])],
                log     |-> Append(st.log, j)]
    IN  UpdateChildren(ChildOrder(j, order), st1, order)

\* ------------------------------------------------------------------ Rig
\* Rig(root): the root is stored in the registry, under the key root
NewRig(j) ==
    /\ ~scene_ready
    /\ ctor_root = None
    /\ j \in Joints
    /\ parent[j] = None
    /\ ctor_root' = j
    /\ reg' = SetItem(EmptyReg, <<"root">>, j).reg
    /\ lastOp' = "NewRig"
    /\ prevOp' = lastOp
    /\ lastArg' = Args(<<>>, <<j>>)
    /\ lastResult' = Returned(None)
    /\ UNCHANGED <<created, parent, children, length, thickness, shape_transform, joint_pos,
                   local_transform, global_transform, aliased, obj_transform, pushLog,
                   regOps, scene_ready, mutations, yielded, prevYielded>>

\* Animation.setup_scene returns: make_scene has built the rig
SceneReady ==
    /\ ~scene_ready
    /\ ctor_root # None
    /\ scene_ready' = TRUE
    /\ lastOp' = "SceneReady"
    /\ prevOp' = lastOp
    /\ lastArg' = Args(<<>>, <<>>)
    /\ lastResult' = Returned(None)
    /\ UNCHANGED <<created, parent, children, length, thickness, shape_transform, joint_pos,
                   local_transform, global_transform, aliased, obj_transform, pushLog,
                   reg, regOps, ctor_root, mutations, yielded, prevYielded>>

\* the iteration orders of the children sets of joints 1..n: a set's order is
\* any enumeration of it (Python fixes none)
RECURSIVE OrdersUpTo(_)
OrdersUpTo(n) ==
    IF n = 0 THEN {<<>>}
    ELSE {Append(o, s) : o \in OrdersUpTo(n - 1), s \in PermSeqs(children[n])}
Orders == OrdersUpTo(created)

\* the local transforms after joint.reset() on each joint of the sequence js
RECURSIVE ResetEach(_, _)
ResetEach(loc, js) ==
    IF js = <<>> THEN loc ELSE ResetEach(JointReset(loc, Head(js)), Tail(js))

\* Rig.reset: self.joints.root is read from the registry; a value that is no
\* Joint has no iter_hierarchy method: the attribute read on a Joints instance
\* stores one more Joints instance, and calling that raises TypeError
Reset ==
    /\ scene_ready
    /\ LET w == GetItem(reg, <<"root">>)
       IN  IF w.res.val = JointsObj
           THEN /\ reg' = GetItem(w.reg, <<"root", "iter_hierarchy">>).reg
                /\ lastResult' = Raised("TypeError")
                /\ lastArg' = Args(<<>>, <<>>)
                /\ UNCHANGED <<local_transform, aliased>>
           ELSE \E order \in Orders :
                  LET js == IterHierarchy(w.res.val, order)
                  IN  /\ local_transform' = ResetEach(local_transform, js)
                      /\ aliased' = aliased \ RangeOf(js)
                      /\ lastArg' = Args(<<>>, js)
                      /\ lastResult' = Returned(None)
                      /\ reg' = w.reg
    /\ lastOp' = "Reset"
    /\ prevOp' = lastOp
    /\ UNCHANGED <<created, parent, children, length, thickness, shape_transform, joint_pos,
                   global_transform, obj_transform, pushLog, regOps, ctor_root, scene_ready,
                   mutations, yielded, prevYielded>>

\* Rig.update: self.joints.root.update_transform()
Update ==
    /\ scene_ready
    /\ LET w == GetItem(reg, <<"root">>)
       IN  IF w.res.val = JointsObj
           THEN /\ reg' = GetItem(w.reg, <<"root", "update_transform">>).reg
                /\ lastResult' = Raised("TypeError")
                /\ UNCHANGED <<global_transform, aliased, obj_transform, pushLog>>
           ELSE \E order \in Orders :
                  LET st == UpdateTransform(w.res.val,
                                [global |-> global_transform, aliased |-> aliased,
                                 obj |-> obj_transform, log |-> <<>>], order)
                  IN  /\ global_transform' = st.global
                      /\ aliased' = st.aliased
                      /\ obj_transform' = st.obj
                      /\ pushLog' = st.log
                      /\ lastResult' = Returned(None)
                      /\ reg' = w.reg
    /\ lastOp' = "Update"
    /\ prevOp' = lastOp
    /\ lastArg' = Args(<<>>, <<>>)
    /\ UNCHANGED <<created, parent, children, length, thickness, shape_transform, joint_pos,
                   local_transform, regOps, ctor_root, scene_ready, mutations,
                   yielded, prevYielded>>

\* root.iter_hierarchy() consumed to its end, for any joint r as the start
Traverse(r) ==
    /\ r \in Joints
    /\ \E order \in Orders :
         /\ yielded' = IterHierarchy(r, order)
         /\ prevYielded' = IF lastOp = "Traverse" /\ lastArg.n = <<r>> THEN yielded ELSE <<>>
    /\ lastOp' = "Traverse"
    /\ prevOp' = lastOp
    /\ lastArg' = Args(<<>>, <<r>>)
    /\ lastResult' = Returned(None)
    /\ UNCHANGED <<created, parent, children, length, thickness, shape_transform, joint_pos,
                   local_transform, global_transform, aliased, obj_transform, pushLog,
                   reg, regOps, ctor_root, scene_ready, mutations>>


\* ------------------------------------------------------------------ the application's use of the registry
\* rig.joints.<name>[i][k] = joint
RegSet(path, j) ==
    /\ scene_ready
    /\ j \in Joints
    /\ LET w == SetItem(reg, path, j)
       IN  /\ reg' = w.reg
           /\ lastResult' = w.res
    /\ regOps' = regOps + 1
    /\ lastOp' = "RegSet"
    /\ prevOp' = lastOp
    /\ lastArg' = Args(path, <<j>>)
    /\ UNCHANGED <<created, parent, children, length, thickness, shape_transform, joint_pos,
                   local_transform, global_transform, aliased, obj_transform, pushLog,
                   ctor_root, scene_ready, mutations, yielded, prevYielded>>

\* rig.joints.<name>[i][k] read
RegGet(path) ==
    /\ scene_ready
    /\ LET w == GetItem(reg, path)
       IN  /\ reg' = w.reg
           /\ lastResult' = w.res
    /\ regOps' = regOps + 1
    /\ lastOp' = "RegGet"
    /\ prevOp' = lastOp
    /\ lastArg' = Args(path, <<>>)
    /\ UNCHANGED <<created, parent, children, length, thickness, shape_transform, joint_pos,
                   local_transform, global_transform, aliased, obj_transform, pushLog,
                   ctor_root, scene_ready, mutations, yielded, prevYielded>>

\* del rig.joints.<name>[i][k]
RegDel(path) ==
    /\ scene_ready
    /\ LET w == DelItem(reg, path)
       IN  /\ reg' = w.reg
           /\ lastResult' = w.res
    /\ regOps' = regOps + 1
    /\ lastOp' = "RegDel"
    /\ prevOp' = lastOp
    /\ lastArg' = Args(path, <<>>)
    /\ UNCHANGED <<created, parent, children, length, thickness, shape_transform, joint_pos,
                   local_transform, global_transform, aliased, obj_transform, pushLog,
                   ctor_root, scene_ready, mutations, yielded, prevYielded>>

\* ------------------------------------------------------------------ numbers
\* a float that is a fraction: <<numerator, denominator>>, denominator > 0, in
\* lowest terms
\* (operands are bound through a singleton set, so that each is evaluated once)
RECURSIVE Gcd(_, _)
Gcd(a, b) ==
    IF b = 0 THEN a ELSE CHOOSE g \in {Gcd(bb, aa % bb) : aa \in {a}, bb \in {b}} : TRUE
Abs(n) == IF n < 0 THEN -n ELSE n
Lowest(n, d) ==
    LET g == Gcd(Abs(n), Abs(d))
        sg == IF d < 0 THEN -1 ELSE 1
    IN  <<sg * (n \div g), sg * (d \div g)>>
Frac(n, d) == CHOOSE f \in {Lowest(nn, dd) : nn \in {n}, dd \in {d}} : TRUE
Whole(n) == <<n, 1>>
FAdd(x, y) == Frac(x[1] * y[2] + y[1] * x[2], x[2] * y[2])
FSub(x, y) == Frac(x[1] * y[2] - y[1] * x[2], x[2] * y[2])
FMul(x, y) == Frac(x[1] * y[1], x[2] * y[2])
FDiv(x, y) == Frac(x[1] * y[2], x[2] * y[1])
FLess(x, y) == x[1] * y[2] < y[1] * x[2]
FLeq(x, y) == x[1] * y[2] <= y[1] * x[2]

\* util.lerp(x, old_min, old_max, new_min, new_max): linear interpolation
Lerp(x, a, b, c, d) == FAdd(FMul(FDiv(FSub(x, a), FSub(b, a)), FSub(d, c)), c)

\* an attribute that has not been assigned
Absent == <<>>

\* ------------------------------------------------------------------ Animation
\* the frame rates and run times an animation is set up with: the program's own
\* frame rate (60 frames per second), values around the limits, and short run
\* times (the program runs for 30 seconds)
FrameRates == {Whole(-1), Whole(0), Frac(1, 2), Whole(1), Whole(60), Whole(999),
               Whole(1000), Whole(1001)}
RunTimes == {Whole(-1), Whole(0), Frac(1, 3), Whole(1), Whole(2)}

\* assert 0 < frame_rate < 1000, with the limit the frame rate stays under
FrameRateLimit == 1000
\* a check that lets a frame rate of 0 through
FrameRateOkFromZero(fr) == FLeq(Whole(0), fr) /\ FLess(fr, Whole(FrameRateLimit))
FrameRateOk(fr) == FLess(Whole(0), fr) /\ FLess(fr, Whole(FrameRateLimit))
\* assert run_time > 0
RunTimeOk(rt) == FLess(Whole(0), rt)

\* Animation.__init__(title, frame_rate, run_time): each assert stands before the
\* assignment of its attribute; the frame counter and the window come last
NewAnimation(fr, rt) ==
    /\ ani_state = "none"
    /\ ani_args' = <<fr, rt>>
    /\ frame_rate' = IF FrameRateOk(fr) THEN fr ELSE Absent
    /\ run_time' = IF FrameRateOk(fr) /\ RunTimeOk(rt) THEN rt ELSE Absent
    /\ IF FrameRateOk(fr) /\ RunTimeOk(rt)
       THEN /\ ani_state' = "constructed"
            /\ frame' = <<0>>
            /\ prev_update_time' = <<None>>
            /\ view' = "created"
       ELSE /\ ani_state' = "failed"
            /\ UNCHANGED <<frame, prev_update_time, view>>
    /\ UNCHANGED <<animation_timer, calls, lastCall>>

\* Animation.run: the timer is created and started, the window shown
Run ==
    /\ ani_state = "constructed"
    /\ ani_state' = "running"
    /\ animation_timer' = "active"
    /\ view' = "shown"
    /\ UNCHANGED <<ani_args, frame_rate, run_time, frame, prev_update_time, calls, lastCall>>

\* a comparison that stops only once t has passed run_time
PastRunTimeStrict(t, rt) == FLess(rt, t)
\* if t >= self.run_time
PastRunTime(t, rt) == FLeq(rt, t)

\* Animation._update, on a timeout of the running timer: the frame update is
\* called, then the timer is stopped if the run time is reached
Timeout ==
    /\ animation_timer = "active"
    /\ LET t == Lerp(Whole(frame[1]), Whole(0), frame_rate, Whole(0), Whole(1))
           dt == IF prev_update_time = <<None>>
                 THEN FDiv(Whole(1), frame_rate)
                 ELSE FSub(t, prev_update_time)
       IN  /\ calls' = calls + 1
           /\ lastCall' = [frame |-> frame[1], t |-> t, dt |-> dt]
           /\ IF PastRunTime(t, run_time)
              THEN /\ animation_timer' = "stopped"
                   /\ view' = "closed"
                   /\ ani_state' = "stopped"
              ELSE UNCHANGED <<animation_timer, view, ani_state>>
           /\ prev_update_time' = t
           /\ frame' = <<frame[1] + 1>>
    /\ UNCHANGED <<ani_args, frame_rate, run_time>>

\* ------------------------------------------------------------------ Proj2Ani.update
\* for w in range(2): the scene has two wings
NumWings == 2
\* chain 0 is the spine, chain w + 1 is wing w
Chains == 0..NumWings

\* the values math.atan(magnitude * math.cos(theta)) takes, in units of pi / 12
AngleUnits == {-1, 0, 1}
\* util.rad2deg of an angle given in units of pi / 12
Rad2Deg(a) == 15 * a

\* prev_global_angle = 0, at the start of a chain
ChainStart == 0

\* an increment that forgets the previous joint's angle
WaveLocalAngleAbsolute(g, prev) == g
\* local_angle = global_angle - prev_global_angle
WaveLocalAngle(g, prev) == g - prev

\* the frame update up to the spine loop: the rig is reset, the root is placed,
\* the accumulator is set for the spine
MotionBegin ==
    /\ m_pc \in {"idle", "done"}
    /\ m_pc' = "spine"
    /\ m_wing' = 0
    /\ m_i' = 0
    /\ prev_global_angle' = ChainStart
    /\ global_angles' = [c \in Chains |-> <<>>]
    /\ wave' = [c \in Chains |-> <<>>]
    /\ bent' = {}

\* one iteration of: for i, joint in enumerate(self.rig.joints.spine)
SpineStep(g) ==
    /\ m_pc = "spine"
    /\ m_i < spine_len
    /\ bent' = IF m_i # 0 THEN bent \cup {<<0, m_i>>} ELSE bent
    /\ global_angles' = [global_angles EXCEPT ![0] = Append(@, g)]
    /\ wave' = [wave EXCEPT ![0] = Append(@, Rad2Deg(WaveLocalAngle(g, prev_global_angle)))]
    /\ prev_global_angle' = g
    /\ m_i' = m_i + 1
    /\ UNCHANGED <<m_pc, m_wing>>

\* the spine loop ends and the first wing begins, its accumulator at 0
WingsBegin ==
    /\ m_pc = "spine"
    /\ m_i = spine_len
    /\ m_pc' = "wings"
    /\ m_wing' = 0
    /\ m_i' = 0
    /\ prev_global_angle' = ChainStart
    /\ UNCHANGED <<global_angles, wave, bent>>

\* one iteration of: for i, joint in enumerate(wing)
WingStep(g) ==
    /\ m_pc = "wings"
    /\ m_i < wing_len
    /\ bent' = bent \cup {<<m_wing + 1, m_i>>}
    /\ global_angles' = [global_angles EXCEPT ![m_wing + 1] = Append(@, g)]
    /\ wave' = [wave EXCEPT ![m_wing + 1] =
                    Append(@, Rad2Deg(WaveLocalAngle(g, prev_global_angle)))]
    /\ prev_global_angle' = g
    /\ m_i' = m_i + 1
    /\ UNCHANGED <<m_pc, m_wing>>

\* the next wing begins, its accumulator at 0
NextWing ==
    /\ m_pc = "wings"
    /\ m_i = wing_len
    /\ m_wing + 1 < NumWings
    /\ m_wing' = m_wing + 1
    /\ m_i' = 0
    /\ prev_global_angle' = ChainStart
    /\ UNCHANGED <<m_pc, global_angles, wave, bent>>

\* after the last wing: self.rig.update(), and the frame update returns
MotionEnd ==
    /\ m_pc = "wings"
    /\ m_i = wing_len
    /\ m_wing + 1 = NumWings
    /\ m_pc' = "done"
    /\ UNCHANGED <<m_wing, m_i, prev_global_angle, global_angles, wave, bent>>

\* ------------------------------------------------------------------ specifications
InitRig ==
    /\ created = 0
    /\ parent = <<>>
    /\ children = <<>>
    /\ length = <<>>
    /\ thickness = <<>>
    /\ shape_transform = <<>>
    /\ joint_pos = <<>>
    /\ local_transform = <<>>
    /\ global_transform = <<>>
    /\ aliased = {}
    /\ obj_transform = <<>>
    /\ pushLog = <<>>
    /\ reg = EmptyReg
    /\ regOps = 0
    /\ ctor_root = None
    /\ scene_ready = FALSE
    /\ mutations = 0
    /\ lastOp = "Init"
    /\ prevOp = "Init"
    /\ lastArg = Args(<<>>, <<>>)
    /\ lastResult = Returned(None)
    /\ yielded = <<>>
    /\ prevYielded = <<>>

\* the scene make_scene builds when spine_len is 2 and there are no wings: the
\* root joint, the Rig around it, one more spine joint
InitScene ==
    /\ created = 2
    /\ parent = <<None, 1>>
    /\ children = <<{2}, {}>>
    /\ length = <<2, 4>>
    /\ thickness = <<1, 1>>
    /\ shape_transform = <<ShapeTransform(2, 1), ShapeTransform(4, 1)>>
    /\ joint_pos = <<JointPos(2), JointPos(4)>>
    /\ local_transform = <<Identity, Identity>>
    /\ global_transform = <<Identity, Identity>>
    /\ aliased = {}
    /\ obj_transform = <<Identity, Identity>>
    /\ pushLog = <<>>
    /\ reg = SetItem(EmptyReg, <<"root">>, 1).reg
    /\ regOps = 0
    /\ ctor_root = 1
    /\ scene_ready = TRUE
    /\ mutations = 0
    /\ lastOp = "SceneReady"
    /\ prevOp = "Init"
    /\ lastArg = Args(<<>>, <<>>)
    /\ lastResult = Returned(None)
    /\ yielded = <<>>
    /\ prevYielded = <<>>

\* no Animation object yet
InitAni ==
    /\ ani_state = "none"
    /\ ani_args = <<>>
    /\ frame_rate = Absent
    /\ run_time = Absent
    /\ frame = Absent
    /\ prev_update_time = Absent
    /\ view = "none"
    /\ animation_timer = "none"
    /\ calls = 0
    /\ lastCall = [frame |-> None, t |-> Whole(0), dt |-> Whole(0)]

\* no frame update has run yet
InitMotion ==
    /\ m_pc = "idle"
    /\ m_wing = 0
    /\ m_i = 0
    /\ prev_global_angle = ChainStart
    /\ global_angles = [c \in Chains |-> <<>>]
    /\ wave = [c \in Chains |-> <<>>]
    /\ bent = {}

vars == <<rigVars, aniVars, motionVars>>

\* a step of the rig leaves the animation and the motion model alone, and so on
RigOnly == UNCHANGED <<aniVars, motionVars>>
AniOnly == UNCHANGED <<rigVars, motionVars>>
MotionOnly == UNCHANGED <<rigVars, aniVars>>

\* a scene is built from joints of valid shape, then frames reset, pose and update it
Init == InitRig /\ InitAni /\ InitMotion
Next ==
    \/ /\ created < MaxJoints
       /\ \E sh \in Shapes, p \in {None} \cup (1..MaxJoints) : NewJoint(sh[1], sh[2], p)
       /\ RigOnly
    \/ \E j \in 1..MaxJoints : NewRig(j) /\ RigOnly
    \/ SceneReady /\ RigOnly
    \/ /\ mutations < MaxMut
       /\ \E j \in 1..MaxJoints, kind \in Mutators : Mutate(j, kind)
       /\ RigOnly
    \/ Reset /\ RigOnly
    \/ Update /\ RigOnly
Spec == Init /\ [][Next]_vars

\* a scene is built from joints of any shape the constructor is given, and traversed
NextBuild ==
    \/ /\ created < MaxBuild
       /\ \E sh \in Shapes \cup BadShapes, p \in {None} \cup (1..MaxBuild) :
             NewJoint(sh[1], sh[2], p)
       /\ RigOnly
    \/ \E r \in 1..MaxBuild : Traverse(r) /\ RigOnly
SpecBuild == Init /\ [][NextBuild]_vars

\* the application reads, assigns and deletes registry entries between frames
InitReg == InitScene /\ InitAni /\ InitMotion
NextReg ==
    \/ /\ regOps < MaxRegOps
       /\ \E path \in RegPaths, j \in 1..MaxJoints : RegSet(path, j)
       /\ RigOnly
    \/ /\ regOps < MaxRegOps
       /\ \E path \in RegPaths : RegGet(path)
       /\ RigOnly
    \/ /\ regOps < MaxRegOps
       /\ \E path \in RegPaths : RegDel(path)
       /\ RigOnly
    \/ Reset /\ RigOnly
    \/ Update /\ RigOnly
SpecReg == InitReg /\ [][NextReg]_vars

\* an animation is set up and run; the timer of a running animation keeps firing
TimeoutStep == Timeout /\ AniOnly
NextAni ==
    \/ \E fr \in FrameRates, rt \in RunTimes : NewAnimation(fr, rt) /\ AniOnly
    \/ Run /\ AniOnly
    \/ TimeoutStep
SpecAni == Init /\ [][NextAni]_vars /\ WF_vars(TimeoutStep)

\* frame after frame of the motion model
NextMotion ==
    \/ MotionBegin /\ MotionOnly
    \/ \E g \in AngleUnits : SpineStep(g) /\ MotionOnly
    \/ WingsBegin /\ MotionOnly
    \/ \E g \in AngleUnits : WingStep(g) /\ MotionOnly
    \/ NextWing /\ MotionOnly
    \/ MotionEnd /\ MotionOnly
SpecMotion == Init /\ [][NextMotion]_vars

\* ------------------------------------------------------------------ properties
\* the joints reachable from the joints of S through children links
RECURSIVE Reach(_)
Reach(S) ==
    LET T == S \cup UNION {children[j] : j \in S}
    IN  IF T = S THEN S ELSE Reach(T)

\* a joint and its ancestors, through parent links
RECURSIVE Lineage(_)
Lineage(j) == IF parent[j] = None THEN {j} ELSE {j} \cup Lineage(parent[j])

\* the sum of the lengths of the proper ancestors of joint j
RECURSIVE AncestorLength(_)
AncestorLength(j) ==
    IF parent[j] = None THEN 0 ELSE length[parent[j]] + AncestorLength(parent[j])

C2_TraversalComplete ==
    lastOp = "Traverse" =>
        LET r == lastArg.n[1]
        IN  /\ RangeOf(yielded) = Reach({r})
            /\ Len(yielded) = Cardinality(Reach({r}))
            /\ \A i \in DOMAIN yielded :
                   yielded[i] # r =>
                       \E k \in 1..(i - 1) : yielded[k] = parent[yielded[i]]
            /\ prevYielded # <<>> =>
                   /\ RangeOf(prevYielded) = RangeOf(yielded)
                   /\ Len(prevYielded) = Len(yielded)

\* a joint with two children was traversed twice in a row, in two sibling orders
C2_Witness ==
    /\ lastOp = "Traverse"
    /\ Len(yielded) = 3
    /\ Cardinality(children[yielded[1]]) = 2
    /\ prevYielded # <<>>
    /\ prevYielded # yielded

\* C3: Rig.reset() leaves every joint reachable from the root with the identity
\* local transform, and a reset that follows a reset changes nothing of what
\* update() reads, so update() after two resets computes what it computes after one
C3_ResetIdempotent ==
    [][(lastOp' = "Reset" /\ lastResult'.exc = "none") =>
          /\ \A j \in Reach({ctor_root}) : local_transform'[j] = Identity
          /\ lastOp = "Reset" =>
                 UNCHANGED <<local_transform, global_transform, aliased, parent, children,
                             joint_pos, shape_transform, reg>>]_vars

\* a posed rig was reset, and reset again
C3_Witness ==
    /\ lastOp = "Reset"
    /\ prevOp = "Reset"
    /\ mutations > 0
    /\ Cardinality(Reach({ctor_root})) > 1
    /\ \E j \in Joints : global_transform[j] # Identity

\* C7: J is in P.children exactly when J.parent is P, every joint with a parent
\* is in exactly one children collection, and a joint just constructed has the
\* identity local transform and no children
C7_ChildrenMirrorParent ==
    /\ \A J \in Joints, P \in Joints : (J \in children[P]) <=> (parent[J] = P)
    /\ \A J \in Joints :
          Cardinality({P \in Joints : J \in children[P]}) = IF parent[J] = None THEN 0 ELSE 1
    /\ lastOp = "NewJoint" =>
          /\ local_transform[lastArg.n[1]] = Identity
          /\ children[lastArg.n[1]] = {}

\* a second child was just constructed under a joint that is itself a child
C7_Witness ==
    /\ lastOp = "NewJoint"
    /\ created = 3
    /\ parent[3] = 2
    /\ parent[2] = 1
    /\ children[2] = {3}

\* C8: a construction with length <= 0 or thickness <= 0 fails, registers
\* nothing in the parent's children and creates no visual
C8_InvalidShapeRejected ==
    (lastOp = "NewJoint" /\ (lastArg.n[2] <= 0 \/ lastArg.n[3] <= 0)) =>
        /\ lastResult.exc = "InvalidArgument"
        /\ \A P \in Joints : lastArg.n[1] \notin children[P]
        /\ Len(obj_transform) < lastArg.n[1]


\* a proper prefix of the path holds a joint (or, at the top, a method of the
\* class), which cannot be indexed
Blocked(r, path) ==
    \/ path[1] \in ClassAttrs
    \/ \E k \in 1..(Len(path) - 1) :
          /\ SubSeq(path, 1, k) \in DOMAIN r
          /\ r[SubSeq(path, 1, k)] # JointsObj

\* the container at the path holds no key
EmptyAt(r, path) == \A q \in DOMAIN r : IsPrefix(path, q) => q = path

\* reading the path returns an empty container and raises nothing
ReadsEmptyContainer(path) ==
    LET w == GetItem(reg, path)
    IN  /\ w.res = Returned(JointsObj)
        /\ EmptyAt(w.reg, path)

\* C5 as stated: a joint assigned at a nested path is read back from it, and
\* reading any path that holds nothing returns an empty container, not an error
C5_AutoVivifyAnyPath ==
    [][/\ (lastOp' = "RegSet" /\ lastResult'.exc = "none") =>
              GetItem(reg', lastArg'.path).res = Returned(lastArg'.n[1])
       /\ (lastOp' = "RegGet" /\ lastArg'.path \notin DOMAIN reg) =>
              lastResult' = Returned(JointsObj)]_vars

\* C5, amended: the read-back holds wherever the assignment went through, the
\* assignment goes through, creating the levels on its way, unless a prefix of
\* the path holds a joint, and reading a path that holds nothing and has no such
\* prefix returns an empty container, not an error
C5_AutoVivify ==
    /\ (lastOp = "RegSet" /\ lastResult.exc = "none" /\ lastArg.path[1] \notin ClassAttrs) =>
           GetItem(reg, lastArg.path).res = Returned(lastArg.n[1])
    /\ (lastOp = "RegSet" /\ lastResult.exc # "none") => Blocked(reg, lastArg.path)
    /\ \A path \in RegPaths :
           (path \notin DOMAIN reg /\ ~Blocked(reg, path)) => ReadsEmptyContainer(path)

\* wings[1][3] was assigned as the first registry operation, with neither wings
\* nor wings[1] created before, and a path under it still holds nothing
C5_Witness ==
    /\ lastOp = "RegSet"
    /\ prevOp = "SceneReady"
    /\ lastArg.path = <<"wings", "1", "3">>
    /\ lastResult.exc = "none"
    /\ reg[<<"wings", "1">>] = JointsObj
    /\ <<"wings", "3">> \notin DOMAIN reg

\* C6: whatever the application did to the registry, reset() and update() visit
\* exactly the joints reachable from the root the Rig was constructed with
C6_RegistryIsMetadata ==
    /\ lastOp = "Reset" =>
           /\ lastResult.exc = "none"
           /\ RangeOf(lastArg.n) = Reach({ctor_root})
    /\ lastOp = "Update" =>
           /\ lastResult.exc = "none"
           /\ RangeOf(pushLog) = Reach({ctor_root})

\* the sum of the first i entries of a sequence of numbers
RECURSIVE SumTo(_, _)
SumTo(seq, i) == IF i = 0 THEN 0 ELSE SumTo(seq, i - 1) + seq[i]

\* C4: under a timer that keeps firing, the frame update is called with frame
\* 0, 1, 2, ... in order and t = frame / frame_rate; the timer is stopped exactly
\* when the last frame update had t >= run_time, i.e. at the first such frame; no
\* frame update follows the stop; and every running animation eventually stops
C4_FrameDriver ==
    /\ [](calls > 0 =>
            /\ lastCall.frame = calls - 1
            /\ lastCall.t = FDiv(Whole(lastCall.frame), frame_rate))
    /\ [][calls' # calls => calls' = calls + 1 /\ lastCall'.frame = calls]_vars
    /\ [](animation_timer = "stopped" <=> (calls > 0 /\ FLeq(run_time, lastCall.t)))
    /\ [][animation_timer = "stopped" => UNCHANGED <<calls, lastCall, animation_timer>>]_vars
    /\ (ani_state = "running") ~> (animation_timer = "stopped")
\* an animation stopped by a frame whose t is exactly the run time, after more
\* than two frame updates
C4_Witness ==
    /\ animation_timer = "stopped"
    /\ calls > 2
    /\ lastCall.t = run_time

\* C9: a setup fails exactly when the frame rate is outside (0, 1000) or the run
\* time is not positive; a failed setup has no frame counter, no window and no
\* timer, and no frame update ever runs for it
C9_SetupValidation ==
    /\ ani_state # "none" =>
          (ani_state = "failed" <=>
              ~ /\ FLess(Whole(0), ani_args[1])
                /\ FLess(ani_args[1], Whole(FrameRateLimit))
                /\ FLess(Whole(0), ani_args[2]))
    /\ ani_state = "failed" =>
          /\ frame = Absent
          /\ prev_update_time = Absent
          /\ view = "none"
          /\ animation_timer = "none"
          /\ calls = 0
\* a setup that failed on a frame rate of exactly the limit, with a valid run time
C9_Witness ==
    /\ ani_state = "failed"
    /\ ani_args = <<Whole(FrameRateLimit), Whole(2)>>

\* C10: in every chain the wave increments applied to joints 0..i sum to the
\* absolute angle of joint i, and the accumulator is 0 where a chain starts
C10_IncrementsSumToGlobal ==
    /\ \A c \in Chains :
          /\ Len(wave[c]) = Len(global_angles[c])
          /\ \A i \in 1..Len(wave[c]) :
                SumTo(wave[c], i) = Rad2Deg(global_angles[c][i])
    /\ (m_pc \in {"spine", "wings"} /\ m_i = 0) => prev_global_angle = 0
\* a finished frame whose spine ended at a non-zero angle, and whose wings started
\* and ended at non-zero angles
C10_Witness ==
    /\ m_pc = "done"
    /\ global_angles[0][spine_len] = 1
    /\ global_angles[1][1] = -1
    /\ global_angles[2][wing_len] = 1

\* the place of joint j in the sequence of pushes of the last Rig.update()
PushIndex(j) == CHOOSE i \in 1..Len(pushLog) : pushLog[i] = j

\* every joint of the hierarchy got exactly one push, of global * shape
PushedOnce ==
    /\ Len(pushLog) = Cardinality(Reach({ctor_root}))
    /\ RangeOf(pushLog) = Reach({ctor_root})
    /\ \A j \in Reach({ctor_root}) :
          obj_transform[j] = Mul(global_transform[j], shape_transform[j])

\* C11 as stated: update_transform recomputes the joint's global transform,
\* recurses into all children and only then pushes global * shape for the joint,
\* so a joint's push follows the pushes of its children; one push per joint
C11_PushAfterChildren ==
    (lastOp = "Update" /\ lastResult.exc = "none") =>
        /\ PushedOnce
        /\ \A c \in Reach({ctor_root}) :
              parent[c] # None => PushIndex(c) < PushIndex(parent[c])

\* C11, amended: update_transform recomputes the joint's global transform, pushes
\* global * shape for the joint and only then recurses into the children, so a
\* joint's push precedes the pushes of its children; one push per joint
C11_PushBeforeChildren ==
    (lastOp = "Update" /\ lastResult.exc = "none") =>
        /\ PushedOnce
        /\ \A c \in Reach({ctor_root}) :
              parent[c] # None => PushIndex(parent[c]) < PushIndex(c)

\* an update of a rig with a child under the root, after a mutator moved a joint
C11_Witness ==
    /\ lastOp = "Update"
    /\ lastResult.exc = "none"
    /\ Len(pushLog) >= 2
    /\ \E j \in Reach({ctor_root}) : global_transform[j] # Identity

\* C12: a translate/rotate on one joint's local transform changes that joint's
\* local transform and nothing else: no global transform, no other joint's
\* local transform, no parent, children, length, thickness, shape transform or
\* joint end transform, whatever calls went before (an update() with no reset
\* after it, a mutator on the root)
C12_MutatorTouchesOnlyLocal ==
    [][lastOp' = "Mutate" =>
          /\ global_transform' = global_transform
          /\ \A k \in Joints : k # lastArg'.n[1] => local_transform'[k] = local_transform[k]
          /\ UNCHANGED <<parent, children, length, thickness, shape_transform, joint_pos>>]_vars
====
